---- MODULE Spec2Model ----
(***************************************************************************)
(* Scoring engine and recommendation-prompt assembly of the SBDC assessment *)
(* service (services.py, main.py, schema.py, config.py).                    *)
(*                                                                          *)
(* Numbers.  The program computes with Python floats.  A score that the     *)
(* program holds unrounded is modelled as an exact fraction [num, den]; a   *)
(* score after round(x, 2) is modelled as an integer number of hundredths   *)
(* (0.33 is 33).  Tier bounds are hundredths as well.                       *)
(*                                                                          *)
(* Strings.  A catalyst name is a sequence of tokens so that                *)
(* catalyst.replace(" ", "_") is computed and not assumed.                  *)
(***************************************************************************)
EXTENDS Integers, Sequences, FiniteSets, TLC

\* ---------------------------------------------------------------- bounds
\* Answers of one submission when calculate_scores is studied alone.
MaxAnswers == 5

\* Answers of one submission when the whole /assess request is studied.
MaxAssessAnswers == 2

\* Answers of one submission when its questions are studied one by one.
MaxSubmission == 2

\* Answers of two concurrent submissions together.
MaxConcurrentAnswers == 3

\* ------------------------------------------------------ program constants
MinScore == 0
MaxScore == 4
PointsPerQuestion == 4
RecommendationLimit == 3

\* -------------------------------------------------------- configuration
\* questions.json, "assessment": areas in insertion order, with their questions.
AssessmentAreas == <<"Financials", "Operations", "Employees">>

AssessmentQuestions ==
    [Financials |-> <<"F1", "F2", "F3">>,
     Operations |-> <<"O1">>,
     Employees  |-> <<"E1">>]

Range(s) == {s[i] : i \in DOMAIN s}

AreaSet == Range(AssessmentAreas)

KnownQuestionIds == UNION {Range(AssessmentQuestions[a]) : a \in AreaSet}

\* A question id that the catalog does not define.
UnknownQuestionIds == {"X9"}

QuestionIds == KnownQuestionIds \cup UnknownQuestionIds

Tiers == {"Responding", "Building", "Optimizing"}

\* rules.json, "tier_boundaries": the inclusive upper bounds of Responding
\* and Building, in hundredths.
TierBoundaryChoices ==
    {[Responding |-> 33, Building |-> 66],
     [Responding |-> 50, Building |-> 75]}

\* The catalysts of the request schema used here, as token sequences.
Crisis == <<"Crisis">>
EconomicUncertainty == <<"Economic", " ", "Uncertainty">>
Catalysts == {Crisis, EconomicUncertainty}

GeneralIntros == <<"general_intros">>

\* tone.json: tier -> (catalyst or general_intros) -> candidate introductions.
ToneResponding ==
    (Crisis :> <<"intro-R-crisis-1", "intro-R-crisis-2">>) @@
    (GeneralIntros :> <<"intro-R-general">>)

ToneBuilding == (GeneralIntros :> <<"intro-B-general">>)

ToneOptimizing == (Crisis :> <<"intro-O-crisis">>)

ToneMatrixChoices ==
    {[Responding |-> ToneResponding, Building |-> ToneBuilding,
      Optimizing |-> ToneOptimizing],
     [Responding |-> ToneResponding, Optimizing |-> ToneOptimizing]}

IntroStrings ==
    {"", "intro-R-crisis-1", "intro-R-crisis-2", "intro-R-general",
     "intro-B-general", "intro-O-crisis"}

\* functional_area.json: tier key -> catalyst key -> area -> recommendations.
Recs(tier_key, area, n) ==
    [j \in 1..n |-> [recommendation |-> <<tier_key, area, j>>]]

FunctionalAreasFor(tier_key) ==
    IF tier_key = "Responding"
    THEN [Financials |-> Recs(tier_key, "Financials", 4),
          Operations |-> Recs(tier_key, "Operations", 1)]
    ELSE [Financials |-> Recs(tier_key, "Financials", 2),
          Operations |-> Recs(tier_key, "Operations", 0),
          Employees  |-> Recs(tier_key, "Employees", 3)]

FunctionalAreas ==
    [tier_key \in {"Responding", "Building_Phase"} |->
        (<<"Crisis">> :> FunctionalAreasFor(tier_key)) @@
        (<<"Economic", "_", "Uncertainty">> :> FunctionalAreasFor(tier_key))]

\* ------------------------------------------------------------- state
VARIABLES
    tier_boundaries,   \* self.rules["tier_boundaries"]
    tone_matrix,       \* config.tone_matrix
    catalyst,          \* response.catalyst
    pc,                \* position of the /assess request
    scores_by_area,    \* the tallies of calculate_scores
    consumed,          \* answers of response.answers iterated so far
    report,            \* the AssessmentReport returned by calculate_scores
    sections,          \* the per-area parts of the prompt, in prompt order
    generation,        \* outcome of model.generate_content
    recommendations,   \* what generate_recommendations returned
    raised,            \* an exception left generate_recommendations
    http_status,       \* status of the /assess response
    response_data,     \* body of the /assess response
    frames,            \* concurrent calculate_scores calls: their locals
    call_tallies       \* concurrent calculate_scores calls: their tallies

vars == <<tier_boundaries, tone_matrix, catalyst, pc, scores_by_area, consumed,
          report, sections, generation, recommendations, raised, http_status,
          response_data, frames, call_tallies>>

\* ------------------------------------------------------------ arithmetic
RECURSIVE GCD(_, _)
GCD(a, b) == IF b = 0 THEN a ELSE GCD(b, a % b)

RECURSIVE IsPowerOfTwo(_)
IsPowerOfTwo(n) ==
    IF n = 1 THEN TRUE ELSE IF n % 2 = 1 THEN FALSE ELSE IsPowerOfTwo(n \div 2)

Rat(n, d) == [num |-> n, den |-> d]

Zero == Rat(0, 1)

RatAdd(x, y) == Rat(x.num * y.den + y.num * x.den, x.den * y.den)

RatDiv(x, n) == Rat(x.num, x.den * n)

\* x <= b / 100
RatLeqHundredths(x, b) == 100 * x.num <= b * x.den

\* A double holds x exactly when x is a dyadic fraction (of this size).
FloatExact(x) ==
    x.num = 0 \/ IsPowerOfTwo(x.den \div GCD(x.num, x.den))

\* round(x, 2) of a value the double holds exactly: round half to even.
\* A ratio total / (answered * 4) with fewer than 10 answers is at a tie only
\* when it is an odd number of eighths, which the double holds exactly.
Round2(x) ==
    LET q == (100 * x.num) \div x.den
        r == (100 * x.num) % x.den
    IN  IF 2 * r < x.den THEN q
        ELSE IF 2 * r > x.den THEN q + 1
        ELSE IF q % 2 = 0 THEN q ELSE q + 1

IsTie(x) == 2 * ((100 * x.num) % x.den) = x.den

\* round(x, 2) of a value computed in doubles.  Off a tie the nearest
\* hundredth; on a tie that the doubles compute exactly, half to even; on a
\* tie they do not compute exactly, the side the representation error falls
\* on, which is either one.
Round2Float(x, exact) ==
    IF IsTie(x) /\ ~exact
    THEN {(100 * x.num) \div x.den, (100 * x.num) \div x.den + 1}
    ELSE {Round2(x)}

\* -------------------------------------------------------------- scoring
None == "None"

\* services.py 24-28
question_to_area_map ==
    [q \in KnownQuestionIds |->
        CHOOSE a \in AreaSet : q \in Range(AssessmentQuestions[a])]

\* dict.get(question_id)
AreaOfWrongDefault(question_id) ==
    IF question_id \in DOMAIN question_to_area_map
    THEN question_to_area_map[question_id]
    ELSE AssessmentAreas[1]

AreaOf(question_id) ==
    IF question_id \in DOMAIN question_to_area_map
    THEN question_to_area_map[question_id]
    ELSE None

\* services.py 47-50
NewTallies ==
    [area \in AreaSet |->
        [total_score |-> 0, answered |-> 0,
         total |-> Len(AssessmentQuestions[area])]]

\* services.py 53-57: one iteration of the loop over response.answers
Tally(tallies, answer) ==
    LET area == AreaOf(answer.question_id)
    IN  IF answer.score >= 0 /\ area # None
        THEN [tallies EXCEPT
                ![area].total_score = @ + answer.score,
                ![area].answered = @ + 1]
        ELSE tallies

\* services.py 247-253
_get_tier(score) ==
    IF RatLeqHundredths(score, tier_boundaries.Responding) THEN "Responding"
    ELSE IF RatLeqHundredths(score, tier_boundaries.Building) THEN "Building"
    ELSE "Optimizing"

\* services.py 65-69
NormScore(data) ==
    IF data.answered > 0
    THEN Rat(data.total_score, data.answered * PointsPerQuestion)
    ELSE Zero

\* services.py 72
IsPriorityTierLowestOnly(tier) == tier = "Responding"

IsPriorityTier(tier) == tier \in {"Responding", "Building"}

\* services.py 84
CountsTowardOverallAlways(data) == TRUE

CountsTowardOverall(data) == data.answered > 0

\* services.py 59-62
ScoringStart ==
    [category_scores |-> <<>>, priority_categories |-> <<>>,
     total_normalized |-> Zero, count |-> 0, exact |-> TRUE]

\* services.py 64-86: one iteration of the loop over scores_by_area
ScoreArea(acc, area, data) ==
    LET norm_score == NormScore(data)
        tier == _get_tier(norm_score)
    IN  [category_scores |->
            Append(acc.category_scores,
                   [name |-> area,
                    raw_score |-> data.total_score,
                    normalized_score |-> Round2(norm_score),
                    tier |-> tier,
                    questions_answered |-> data.answered,
                    total_questions |-> data.total]),
         priority_categories |->
            IF IsPriorityTier(tier)
            THEN Append(acc.priority_categories, area)
            ELSE acc.priority_categories,
         total_normalized |->
            IF CountsTowardOverall(data)
            THEN RatAdd(acc.total_normalized, norm_score)
            ELSE acc.total_normalized,
         count |-> IF CountsTowardOverall(data) THEN acc.count + 1 ELSE acc.count,
         exact |-> acc.exact /\ FloatExact(norm_score)]

RECURSIVE ScoreAreas(_, _)
ScoreAreas(tallies, n) ==
    IF n = 0 THEN ScoringStart
    ELSE ScoreArea(ScoreAreas(tallies, n - 1), AssessmentAreas[n],
                   tallies[AssessmentAreas[n]])

\* services.py 88: the values round(total_normalized / count, 2) can take
OverallScores(acc) ==
    IF acc.count > 0
    THEN LET mean == RatDiv(acc.total_normalized, acc.count)
         IN  Round2Float(mean, acc.exact /\ FloatExact(mean))
    ELSE {0}

\* services.py 89-96
Report(acc, overall_score) ==
    [category_scores |-> acc.category_scores,
     overall_score |-> overall_score,
     overall_tier |-> _get_tier(Rat(overall_score, 100)),
     priority_categories |-> acc.priority_categories]

\* services.py 59-96: the reports calculate_scores can return for the tallies
Reports(tallies) ==
    LET acc == ScoreAreas(tallies, Len(AssessmentAreas))
    IN  {Report(acc, s) : s \in OverallScores(acc)}

NoReport ==
    [category_scores |-> <<>>, overall_score |-> 0, overall_tier |-> "",
     priority_categories |-> <<>>]

\* ------------------------------------------------------- recommendations
\* dict.get(key, default)
DictGet(d, key, default) == IF key \in DOMAIN d THEN d[key] ELSE default

EmptyDict == <<>>

\* str.replace(old, new) on a token sequence
Replace(s, old, new) == [i \in DOMAIN s |-> IF s[i] = old THEN new ELSE s[i]]

\* services.py 103
CatalystKey(c) == Replace(c, " ", "_")

\* services.py 106-107
TierKey(overall_tier) ==
    IF overall_tier = "Responding" THEN "Responding"
    ELSE IF overall_tier = "Building" THEN "Building_Phase"
    ELSE "Optimizing"

\* sorted() is stable: c goes behind every element whose key is <= its own.
InsertByScoreBeforeEqual(sorted, c) ==
    LET k == Cardinality({i \in DOMAIN sorted :
                            sorted[i].normalized_score < c.normalized_score})
    IN  SubSeq(sorted, 1, k) \o <<c>> \o SubSeq(sorted, k + 1, Len(sorted))

InsertByScore(sorted, c) ==
    LET k == Cardinality({i \in DOMAIN sorted :
                            sorted[i].normalized_score <= c.normalized_score})
    IN  SubSeq(sorted, 1, k) \o <<c>> \o SubSeq(sorted, k + 1, Len(sorted))

\* services.py 157
RECURSIVE SortedByScore(_, _)
SortedByScore(category_scores, n) ==
    IF n = 0 THEN <<>>
    ELSE InsertByScore(SortedByScore(category_scores, n - 1), category_scores[n])

SortedAreas(result) ==
    SortedByScore(result.category_scores, Len(result.category_scores))

\* services.py 164-165
CatalystIntros(tier, c) ==
    LET tier_intros == DictGet(tone_matrix, tier, EmptyDict)
    IN  DictGet(tier_intros, c, DictGet(tier_intros, GeneralIntros, <<"">>))

\* services.py 166: the values random.choice can return
IntroChoices(tier, c) ==
    IF CatalystIntros(tier, c) # <<>> THEN Range(CatalystIntros(tier, c)) ELSE {""}

\* services.py 169-174
DetailedData(result, c, cat) ==
    DictGet(DictGet(DictGet(FunctionalAreas, TierKey(result.overall_tier), EmptyDict),
                    CatalystKey(c), EmptyDict),
            cat.name, <<>>)

Min(a, b) == IF a < b THEN a ELSE b

\* services.py 179-182: detailed_data[:3], numbered from 1
RecommendationsText(detailed_data) ==
    [j \in 1..Min(Len(detailed_data), RecommendationLimit) |->
        [number |-> j, text |-> detailed_data[j].recommendation]]

\* services.py 159-207: the prompt part of the i-th area of sorted_areas
Section(i, cat, intro, detailed_data) ==
    IF detailed_data # <<>>
    THEN [number |-> i, area |-> cat.name, intro |-> intro,
          grounded |-> TRUE,
          recommendations_text |-> RecommendationsText(detailed_data),
          instruction |-> "expand each recommendation above"]
    ELSE [number |-> i, area |-> cat.name, intro |-> intro,
          grounded |-> FALSE,
          recommendations_text |-> <<>>,
          instruction |-> <<"provide 3 recommendations based on", cat.tier, catalyst>>]

\* services.py 227-242
TryGenerateUncaught(outcome) ==
    IF outcome = "raises"
    THEN [raised |-> TRUE, value |-> ""]
    ELSE [raised |-> FALSE, value |-> "response.text"]

TryGenerate(outcome) ==
    IF outcome = "raises"
    THEN [raised |-> FALSE, value |-> "Error generating recommendations: e"]
    ELSE [raised |-> FALSE, value |-> "response.text"]

\* services.py 255-259
get_tier_distribution(result) ==
    [t \in Tiers |->
        Cardinality({i \in DOMAIN result.category_scores :
                        result.category_scores[i].tier = t})]

\* main.py 40-55
ResponseData(result, recs) ==
    [overall_score |-> result.overall_score,
     overall_tier |-> result.overall_tier,
     priority_categories |-> result.priority_categories,
     category_details |->
        [i \in DOMAIN result.category_scores |->
            [name |-> result.category_scores[i].name,
             score |-> result.category_scores[i].normalized_score,
             tier |-> result.category_scores[i].tier,
             questions_answered |-> result.category_scores[i].questions_answered,
             total_questions |-> result.category_scores[i].total_questions]],
     recommendations |-> recs,
     tier_distribution |-> get_tier_distribution(result)]

NoResponse == [detail |-> ""]

\* ------------------------------------------------------ concurrent calls
Calls == {1, 2}

Answers == [question_id : QuestionIds, score : MinScore..MaxScore]

\* The answers used where two submissions are enumerated together.
ConcurrentAnswers ==
    {[question_id |-> "F1", score |-> 4], [question_id |-> "F2", score |-> 1],
     [question_id |-> "O1", score |-> 2], [question_id |-> "E1", score |-> 3],
     [question_id |-> "X9", score |-> 4]}

SeqsUpTo(S, n) == UNION {[1..k -> S] : k \in 0..n}

NoFrame == [pc |-> "absent", response |-> <<>>, next |-> 1, report |-> NoReport]

NewFrame(response) ==
    [pc |-> "called", response |-> response, next |-> 1, report |-> NoReport]

\* services.py 47: scores_by_area is a local of the call
TallySlotShared(call) == 1

TallySlot(call) == call

\* --------------------------------------------------------------- actions
Init ==
    /\ tier_boundaries \in TierBoundaryChoices
    /\ tone_matrix \in ToneMatrixChoices
    /\ catalyst \in Catalysts
    /\ pc = "request"
    /\ scores_by_area = EmptyDict
    /\ consumed = 0
    /\ report = NoReport
    /\ sections = <<>>
    /\ generation = ""
    /\ recommendations = ""
    /\ raised = FALSE
    /\ http_status = 0
    /\ response_data = NoResponse
    /\ frames = [c \in Calls |-> NoFrame]
    /\ call_tallies = [c \in Calls |-> EmptyDict]

\* services.py 46-50: calculate_scores is entered
StartScoring ==
    /\ pc = "request"
    /\ pc' = "tally"
    /\ scores_by_area' = NewTallies
    /\ UNCHANGED <<tier_boundaries, tone_matrix, catalyst, consumed, report,
                   sections, generation, recommendations, raised, http_status,
                   response_data, frames, call_tallies>>

\* services.py 52-57: the loop takes the next answer of the submission
TallyAnswerUpTo(limit) ==
    /\ pc = "tally"
    /\ consumed < limit
    /\ \E question_id \in QuestionIds, score \in MinScore..MaxScore :
          scores_by_area' =
              Tally(scores_by_area, [question_id |-> question_id, score |-> score])
    /\ consumed' = consumed + 1
    /\ UNCHANGED <<tier_boundaries, tone_matrix, catalyst, pc, report, sections,
                   generation, recommendations, raised, http_status,
                   response_data, frames, call_tallies>>

TallyAnswer == TallyAnswerUpTo(MaxAnswers)

AssessTallyAnswer == TallyAnswerUpTo(MaxAssessAnswers)

\* services.py 59-96: the answers are exhausted, the report is built
FinishScores ==
    /\ pc = "tally"
    /\ pc' = "scored"
    /\ report' \in Reports(scores_by_area)
    /\ UNCHANGED <<tier_boundaries, tone_matrix, catalyst, scores_by_area,
                   consumed, sections, generation, recommendations, raised,
                   http_status, response_data, frames, call_tallies>>

\* services.py 101-242
GenerateRecommendations ==
    /\ pc = "scored"
    /\ pc' = "recommended"
    /\ LET sorted_areas == SortedAreas(report)
       IN  /\ \E intro \in [DOMAIN sorted_areas -> IntroStrings] :
                /\ \A i \in DOMAIN sorted_areas :
                      intro[i] \in IntroChoices(sorted_areas[i].tier, catalyst)
                /\ sections' =
                      [i \in DOMAIN sorted_areas |->
                          Section(i, sorted_areas[i], intro[i],
                                  DetailedData(report, catalyst, sorted_areas[i]))]
    /\ \E outcome \in {"text", "raises"} :
          /\ generation' = outcome
          /\ recommendations' = TryGenerate(outcome).value
          /\ raised' = TryGenerate(outcome).raised
    /\ UNCHANGED <<tier_boundaries, tone_matrix, catalyst, scores_by_area,
                   consumed, report, http_status, response_data, frames, call_tallies>>

\* main.py 33-59
Respond ==
    /\ pc = "recommended"
    /\ pc' = "responded"
    /\ IF raised
       THEN /\ http_status' = 400
            /\ response_data' = NoResponse
       ELSE /\ http_status' = 200
            /\ response_data' = ResponseData(report, recommendations)
    /\ UNCHANGED <<tier_boundaries, tone_matrix, catalyst, scores_by_area,
                   consumed, report, sections, generation, recommendations,
                   raised, frames, call_tallies>>

\* services.py 46-50: call c enters calculate_scores
CallStart(c) ==
    /\ frames[c].pc = "called"
    /\ frames' = [frames EXCEPT ![c].pc = "tally"]
    /\ call_tallies' = [call_tallies EXCEPT ![TallySlot(c)] = NewTallies]
    /\ UNCHANGED <<tier_boundaries, tone_matrix, catalyst, pc, scores_by_area,
                   consumed, report, sections, generation, recommendations,
                   raised, http_status, response_data>>

\* services.py 52-57: call c takes its next answer
CallTally(c) ==
    /\ frames[c].pc = "tally"
    /\ frames[c].next <= Len(frames[c].response)
    /\ call_tallies' =
          [call_tallies EXCEPT
              ![TallySlot(c)] = Tally(@, frames[c].response[frames[c].next])]
    /\ frames' = [frames EXCEPT ![c].next = @ + 1]
    /\ UNCHANGED <<tier_boundaries, tone_matrix, catalyst, pc, scores_by_area,
                   consumed, report, sections, generation, recommendations,
                   raised, http_status, response_data>>

\* services.py 59-96: call c builds and returns its report
CallFinish(c) ==
    /\ frames[c].pc = "tally"
    /\ frames[c].next > Len(frames[c].response)
    /\ \E r \in Reports(call_tallies[TallySlot(c)]) :
          frames' = [frames EXCEPT ![c].pc = "done", ![c].report = r]
    /\ UNCHANGED <<tier_boundaries, tone_matrix, catalyst, pc, scores_by_area,
                   consumed, report, sections, generation, recommendations,
                   raised, http_status, response_data, call_tallies>>

\* The /assess request.
Next ==
    \/ StartScoring
    \/ AssessTallyAnswer
    \/ FinishScores
    \/ GenerateRecommendations
    \/ Respond

Spec == Init /\ [][Next]_vars

\* calculate_scores alone, on longer submissions.
ScoringInit ==
    /\ Init
    /\ catalyst = Crisis
    /\ DOMAIN tone_matrix = Tiers

ScoringNext ==
    \/ StartScoring
    \/ TallyAnswer
    \/ FinishScores

SpecScoring == ScoringInit /\ [][ScoringNext]_vars

CallNext ==
    \/ \E c \in Calls : CallStart(c)
    \/ \E c \in Calls : CallTally(c)
    \/ \E c \in Calls : CallFinish(c)

\* One calculate_scores call on an enumerated submission.
SubmissionInit ==
    /\ tier_boundaries \in TierBoundaryChoices
    /\ tone_matrix \in ToneMatrixChoices
    /\ DOMAIN tone_matrix = Tiers
    /\ catalyst = Crisis
    /\ pc = "request"
    /\ scores_by_area = EmptyDict
    /\ consumed = 0
    /\ report = NoReport
    /\ sections = <<>>
    /\ generation = ""
    /\ recommendations = ""
    /\ raised = FALSE
    /\ http_status = 0
    /\ response_data = NoResponse
    /\ \E answers \in SeqsUpTo(Answers, MaxSubmission) :
          frames = [c \in Calls |-> IF c = 1 THEN NewFrame(answers) ELSE NoFrame]
    /\ call_tallies = [c \in Calls |-> EmptyDict]

SpecSubmission == SubmissionInit /\ [][CallNext]_vars

\* Two calculate_scores calls on the same service, interleaved.
ConcurrentInit ==
    /\ tier_boundaries \in TierBoundaryChoices
    /\ tone_matrix \in ToneMatrixChoices
    /\ DOMAIN tone_matrix = Tiers
    /\ catalyst = Crisis
    /\ pc = "request"
    /\ scores_by_area = EmptyDict
    /\ consumed = 0
    /\ report = NoReport
    /\ sections = <<>>
    /\ generation = ""
    /\ recommendations = ""
    /\ raised = FALSE
    /\ http_status = 0
    /\ response_data = NoResponse
    /\ \E first \in SeqsUpTo(ConcurrentAnswers, MaxConcurrentAnswers) :
          \E second \in SeqsUpTo(ConcurrentAnswers,
                                  MaxConcurrentAnswers - Len(first)) :
              frames = [c \in Calls |->
                          IF c = 1 THEN NewFrame(first) ELSE NewFrame(second)]
    /\ call_tallies = [c \in Calls |-> EmptyDict]

SpecConcurrent == ConcurrentInit /\ [][CallNext]_vars

\* ================================================================ claims
Scored == pc = "scored"

Recommended == pc \in {"recommended", "responded"}

CategoryScoreOf(area) ==
    CHOOSE cs \in Range(report.category_scores) : cs.name = area

CatalogIndex(area) == CHOOSE i \in DOMAIN AssessmentAreas : AssessmentAreas[i] = area

\* Tier classification as the specification words it: the tiers in ascending
\* order, the first whose inclusive upper bound is >= the score, else the top.
classify_tier(hundredths) ==
    IF hundredths <= tier_boundaries.Responding THEN "Responding"
    ELSE IF hundredths <= tier_boundaries.Building THEN "Building"
    ELSE "Optimizing"

\* h is a hundredth nearest to the fraction x
Nearest(h, x) ==
    /\ 2 * (100 * x.num - h * x.den) <= x.den
    /\ 2 * (h * x.den - 100 * x.num) <= x.den

AnsweredScores == {i \in DOMAIN report.category_scores :
                      report.category_scores[i].questions_answered > 0}

RECURSIVE SumOver(_, _, _)
SumOver(f(_), n, keep) ==
    IF n = 0 THEN Zero
    ELSE IF n \in keep THEN RatAdd(SumOver(f, n - 1, keep), f(n))
    ELSE SumOver(f, n - 1, keep)

ReportedScore(i) == Rat(report.category_scores[i].normalized_score, 100)

UnroundedScore(i) ==
    Rat(report.category_scores[i].raw_score,
        report.category_scores[i].questions_answered * PointsPerQuestion)

MeanOfReported ==
    RatDiv(SumOver(ReportedScore, Len(report.category_scores), AnsweredScores),
           Cardinality(AnsweredScores))

MeanOfUnrounded ==
    RatDiv(SumOver(UnroundedScore, Len(report.category_scores), AnsweredScores),
           Cardinality(AnsweredScores))

\* C1: every area's reported tier is classify_tier of the area's reported
\* (2-decimal) normalized_score.
C1_TierOfReportedScore ==
    Scored =>
        \A i \in DOMAIN report.category_scores :
            report.category_scores[i].tier =
                classify_tier(report.category_scores[i].normalized_score)

\* C2: when an area's tier has no entry in the tone matrix,
\* generate_recommendations raises and assembles no section for it with an
\* empty introduction.
C2_MissingToneTierRaises ==
    (Recommended /\ \E cs \in Range(report.category_scores) :
                        cs.tier \notin DOMAIN tone_matrix)
        => raised

IsLowerTier(area) == CategoryScoreOf(area).tier \in {"Responding", "Building"}

\* C5: priority_categories is the catalog's areas, in catalog order, whose
\* reported tier is Responding or Building, each once.
C5_PriorityCategories ==
    Scored => report.priority_categories = SelectSeq(AssessmentAreas, IsLowerTier)

\* Two priority areas of which the first has the higher score, an unanswered
\* area among the priorities, and an area in the top tier left out.
C5_Witness ==
    /\ Scored
    /\ Len(report.priority_categories) = 2
    /\ CategoryScoreOf(report.priority_categories[1]).normalized_score >
          CategoryScoreOf(report.priority_categories[2]).normalized_score
    /\ CategoryScoreOf(report.priority_categories[2]).questions_answered = 0
    /\ \E cs \in Range(report.category_scores) : cs.tier = "Optimizing"

\* C6: the prompt's sections are numbered 1..n, hold every area exactly once,
\* ascend in normalized_score, and keep catalog order among equal scores.
C6_SectionsWeakestFirst ==
    Recommended =>
        /\ Len(sections) = Len(AssessmentAreas)
        /\ \A area \in AreaSet :
              Cardinality({i \in DOMAIN sections : sections[i].area = area}) = 1
        /\ \A i \in DOMAIN sections : sections[i].number = i
        /\ \A i, j \in DOMAIN sections :
              i < j =>
                LET si == CategoryScoreOf(sections[i].area).normalized_score
                    sj == CategoryScoreOf(sections[j].area).normalized_score
                IN  /\ si <= sj
                    /\ si = sj =>
                          CatalogIndex(sections[i].area) < CatalogIndex(sections[j].area)

\* The first and last area of the catalog tie and the middle one is weaker.
C6_Witness ==
    /\ Recommended
    /\ sections[1].area = AssessmentAreas[2]
    /\ sections[2].area = AssessmentAreas[1]
    /\ sections[3].area = AssessmentAreas[3]
    /\ CategoryScoreOf(AssessmentAreas[1]).normalized_score =
          CategoryScoreOf(AssessmentAreas[3]).normalized_score

\* C7: a failing text-generation call is returned as an error string, and
\* /assess answers 200 with the scoring results and that string.
C7_GenerationFailureAbsorbed ==
    (Recommended /\ generation = "raises") =>
        /\ ~raised
        /\ recommendations = "Error generating recommendations: e"
        /\ pc = "responded" =>
              /\ http_status = 200
              /\ response_data.recommendations = recommendations
              /\ response_data.overall_score = report.overall_score
              /\ response_data.overall_tier = report.overall_tier
              /\ response_data.priority_categories = report.priority_categories
              /\ \A i \in DOMAIN report.category_scores :
                    /\ response_data.category_details[i].score =
                          report.category_scores[i].normalized_score
                    /\ response_data.category_details[i].tier =
                          report.category_scores[i].tier

C7_Witness ==
    /\ pc = "responded"
    /\ generation = "raises"
    /\ consumed > 0
    /\ report.overall_score > 0

\* services.py 169-174 as the claim reads it: under the area's own tier.
DetailedDataOfOwnTier(area) ==
    DictGet(DictGet(DictGet(FunctionalAreas, TierKey(CategoryScoreOf(area).tier),
                            EmptyDict),
                    CatalystKey(catalyst), EmptyDict),
            area, <<>>)

\* C9: a section's snippets are the first up to 3 recommendations found
\* under the area's own tier, the catalyst and the area; with none found the
\* section has no snippets and asks for recommendations from tier and
\* catalyst alone.
C9_SnippetsOfOwnTier ==
    Recommended =>
        \A i \in DOMAIN sections :
            LET own == DetailedDataOfOwnTier(sections[i].area)
            IN  /\ Len(sections[i].recommendations_text) = Min(Len(own), RecommendationLimit)
                /\ \A j \in DOMAIN sections[i].recommendations_text :
                      sections[i].recommendations_text[j].text = own[j].recommendation
                /\ sections[i].grounded = (own # <<>>)

\* C10: no CategoryScore reports more questions answered than the area has.
C10_AnsweredWithinTotal ==
    Scored =>
        \A i \in DOMAIN report.category_scores :
            report.category_scores[i].questions_answered <=
                report.category_scores[i].total_questions

\* calculate_scores run alone on a whole submission
RECURSIVE TalliesOf(_, _)
TalliesOf(answers, n) ==
    IF n = 0 THEN NewTallies ELSE Tally(TalliesOf(answers, n - 1), answers[n])

IsKnown(answer) == answer.question_id \in KnownQuestionIds

KnownOnly(answers) == SelectSeq(answers, IsKnown)

\* C4: answers with a question id outside the catalog change nothing: the
\* tallies count none of them and the report is the report of the submission
\* without them.
C4_UnknownIdsIgnored ==
    \A c \in Calls :
        LET f == frames[c]
            kept == KnownOnly(f.response)
        IN  /\ f.pc = "tally" =>
                  call_tallies[TallySlot(c)] =
                      TalliesOf(KnownOnly(SubSeq(f.response, 1, f.next - 1)),
                                Len(KnownOnly(SubSeq(f.response, 1, f.next - 1))))
            /\ f.pc = "done" => f.report \in Reports(TalliesOf(kept, Len(kept)))

\* A finished call whose submission holds an unknown id before a known one.
C4_Witness ==
    /\ frames[1].pc = "done"
    /\ Len(frames[1].response) = 2
    /\ ~IsKnown(frames[1].response[1])
    /\ IsKnown(frames[1].response[2])
    /\ frames[1].response[1].score > 0
    /\ frames[1].report.overall_score > 0

C8_ReportsAsAlone ==
    \A c \in Calls :
        LET f == frames[c]
        IN  /\ f.pc = "tally" =>
                  call_tallies[TallySlot(c)] = TalliesOf(f.response, f.next - 1)
            /\ f.pc = "done" =>
                  f.report \in Reports(TalliesOf(f.response, Len(f.response)))

\* C8: however two calls interleave, each returns the report of its own
\* submission run alone, its tallies are its own, and no step changes the
\* service's configuration.
C8_CallsIndependent ==
    /\ []C8_ReportsAsAlone
    /\ [][UNCHANGED <<tier_boundaries, tone_matrix>>]_vars

\* The first call has tallied its answer and not yet built its report, the
\* second call has returned, and the two hold different non-empty tallies.
C8_Witness ==
    /\ frames[1].pc = "tally"
    /\ frames[1].next = 2
    /\ Len(frames[1].response) = 1
    /\ frames[2].pc = "done"
    /\ Len(frames[2].response) = 1
    /\ frames[2].report.overall_score > 0
    /\ call_tallies[TallySlot(1)] # NewTallies
    /\ call_tallies[TallySlot(1)] # call_tallies[TallySlot(2)]

====
